---------------------------- MODULE Spec2Model ----------------------------
(***************************************************************************)
(* Model of app/monitor.py (WarSoul price monitor).                        *)
(*                                                                         *)
(* Three specifications share the module:                                  *)
(*   SpecAdvice    calculate_investment_advice on free inputs              *)
(*   SpecAnalysis  the per-entity pipeline of run(): price analysis,       *)
(*                 trend analysis, advice                                  *)
(*   SpecRun       run() against the history file, slot by slot            *)
(*                                                                         *)
(* Numbers.  Prices are integers.  Percentiles, scores and adjustments are *)
(* integer counts of 1/Unit, so that real arithmetic is exact: Unit is     *)
(* divisible by every sequence length up to 10 and leaves the /10 and      *)
(* *10/15 of the scoring exact.  Slopes, strengths, averages and percent   *)
(* distances are exact fractions [n, d].  Python floats are modelled by    *)
(* the reals they approximate.                                             *)
(*                                                                         *)
(* Text.  A Python string is a sequence of words; "a in b" is "a is a      *)
(* contiguous run of words of b".  The trend labels of the source are      *)
(*   qiangshi shangsheng  -> <<"strong","up">>    (strong rise)            *)
(*   wenhe shangsheng     -> <<"mild","up">>      (mild rise)              *)
(*   hengpan              -> <<"flat">>                                    *)
(*   wenhe xiajiang       -> <<"mild","down">>                             *)
(*   qiangshi xiajiang    -> <<"strong","down">>                           *)
(*   shuju buzu           -> <<"nodata">>         (insufficient data)      *)
(* and fanzhuan (reversal) is the word "reversal".                         *)
(***************************************************************************)
EXTENDS Integers, Sequences, FiniteSets, TLC

VARIABLES
    pc,                 \* position in the analysis pipeline / kind of last run
    historical_prices,  \* hist: an entity's historical series
    current_price,      \* cur: the price fetched now
    analysis,           \* pa = calculate_price_analysis(cur, hist)
    percentile,         \* the percentile handed to calculate_investment_advice
    trend_analysis,     \* the TrendResult handed to calculate_investment_advice
    investment_advice,  \* adv = calculate_investment_advice(percentile, trend)
    clock,              \* Beijing wall clock of the latest run, [day, hour]
    data_file,          \* DATA_FILE price_history.txt: [exists, lines]
    site,               \* site/price_history.txt as last published: [exists, history]
    commerce_data       \* the tracked prices of the latest fetch

vars == <<pc, historical_prices, current_price, analysis, percentile,
          trend_analysis, investment_advice, clock, data_file, site,
          commerce_data>>

analysisVars == <<pc, historical_prices, current_price, analysis, percentile,
                  trend_analysis, investment_advice>>

runVars == <<clock, data_file, site, commerce_data>>

-----------------------------------------------------------------------------
(* Bounds of the model *)

\* prices of the analysis specifications are 1..MaxPrice and FarPrice
MaxPrice == 3

\* a price far from the others: with it a slope can be small against the range,
\* which is what the mild and flat labels need
FarPrice == 60

\* historical series of the analysis specifications have at most MaxLen prices
MaxLen == 4

\* grid points per percent of the percentiles handed to the advice
PctSteps == 1

\* the clock of SpecRun runs over days 1..MaxDay
MaxDay == 2

\* SpecRun appends no row beyond MaxRows data rows
MaxRows == 2

-----------------------------------------------------------------------------
(* Arithmetic helpers *)

\* one unit of a real-valued result
Unit == 2 * 2 * 2 * 3 * 3 * 3 * 5 * 5 * 7

Abs(x) == IF x < 0 THEN -x ELSE x

Min2(a, b) == IF a < b THEN a ELSE b

Max2(a, b) == IF a > b THEN a ELSE b

Range(s) == {s[i] : i \in DOMAIN s}

SeqMax(s) == CHOOSE x \in Range(s) : \A y \in Range(s) : x >= y

SeqMin(s) == CHOOSE x \in Range(s) : \A y \in Range(s) : x <= y

RECURSIVE SeqSum(_)
SeqSum(s) == IF s = <<>> THEN 0 ELSE s[1] + SeqSum(Tail(s))

SeqsUpTo(S, n) == UNION {[1..k -> S] : k \in 0..n}

\* the last n elements of s (Python s[-n:]), all of s when n >= Len(s)
LastN(s, n) == IF n >= Len(s) THEN s ELSE SubSeq(s, Len(s) - n + 1, Len(s))

\* Python "sub in s" on word sequences
In(sub, s) ==
    \E i \in 1..(Len(s) - Len(sub) + 1) : SubSeq(s, i, i + Len(sub) - 1) = sub

\* Python round(n/d) for n >= 0, d > 0: to nearest, ties to even
Round(n, d) ==
    LET q == n \div d
        r == n % d
    IN  IF 2 * r < d THEN q
        ELSE IF 2 * r > d THEN q + 1
        ELSE IF q % 2 = 0 THEN q ELSE q + 1

-----------------------------------------------------------------------------
(* calculate_trend_analysis *)

STRONG_UP == <<"strong", "up">>

MILD_UP == <<"mild", "up">>

FLAT == <<"flat">>

MILD_DOWN == <<"mild", "down">>

STRONG_DOWN == <<"strong", "down">>

NODATA == <<"nodata">>

UP == <<"up">>

DOWN == <<"down">>

REVERSAL == <<"reversal">>

\* strength = abs(slope) / price_range * 100, or 0 when the range is 0
Strength(slope, price_range) ==
    IF price_range > 0
    THEN [n |-> Abs(slope.n) * 100, d |-> slope.d * price_range]
    ELSE [n |-> 0, d |-> 1]

\* a > b on fractions with positive denominators
FracGt(a, b) == a.n * b.d > b.n * a.d

get_trend_direction(slope, strength) ==
    IF 2 * strength.n < strength.d THEN FLAT
    ELSE IF slope.n > 0 /\ strength.n > 2 * strength.d THEN STRONG_UP
    ELSE IF slope.n > 0 THEN MILD_UP
    ELSE IF slope.n < 0 /\ strength.n > 2 * strength.d THEN STRONG_DOWN
    ELSE MILD_DOWN

trend_desc(short_direction, mid_direction, short_strength, mid_strength) ==
    IF short_direction = mid_direction
    THEN mid_direction \o <<",", "trend", "stable">>
    ELSE IF In(UP, mid_direction) /\ In(UP, short_direction)
    THEN IF FracGt(short_strength, mid_strength)
         THEN mid_direction \o <<",", "short", "accelerating">>
         ELSE mid_direction \o <<",", "short", "decelerating">>
    ELSE IF In(DOWN, mid_direction) /\ In(DOWN, short_direction)
    THEN IF FracGt(short_strength, mid_strength)
         THEN mid_direction \o <<",", "short", "accelerating">>
         ELSE mid_direction \o <<",", "short", "decelerating">>
    ELSE IF \/ In(UP, mid_direction) /\ In(DOWN, short_direction)
            \/ In(DOWN, mid_direction) /\ In(UP, short_direction)
    THEN mid_direction \o <<",", "short", "reversal">>
    ELSE <<"mid">> \o mid_direction \o <<",", "short">> \o short_direction

calculate_trend_analysis(prices) ==
    IF Len(prices) < 3
    THEN [short_trend |-> NODATA, mid_trend |-> NODATA,
          trend_strength |-> [n |-> 0, d |-> 1],
          trend_description |-> NODATA,
          short_slope |-> [n |-> 0, d |-> 1],
          mid_slope |-> [n |-> 0, d |-> 1], prices |-> prices]
    ELSE
    LET recent_3 == LastN(prices, 3)
        short_trend_slope == [n |-> recent_3[3] - recent_3[1], d |-> 2]
        mid_window == Min2(7, Len(prices))
        recent_mid == LastN(prices, mid_window)
        mid_trend_slope ==
            [n |-> recent_mid[Len(recent_mid)] - recent_mid[1],
             d |-> Len(recent_mid) - 1]
        price_range == SeqMax(prices) - SeqMin(prices)
        short_strength == Strength(short_trend_slope, price_range)
        mid_strength == Strength(mid_trend_slope, price_range)
        short_direction == get_trend_direction(short_trend_slope, short_strength)
        mid_direction == get_trend_direction(mid_trend_slope, mid_strength)
    IN  [short_trend |-> short_direction, mid_trend |-> mid_direction,
         trend_strength |->
             [n |-> short_strength.n * mid_strength.d
                       + mid_strength.n * short_strength.d,
              d |-> 2 * short_strength.d * mid_strength.d],
         trend_description |->
             trend_desc(short_direction, mid_direction,
                        short_strength, mid_strength),
         short_slope |-> short_trend_slope,
         mid_slope |-> mid_trend_slope, prices |-> prices]

-----------------------------------------------------------------------------
(* calculate_price_analysis *)

\* lower_count counting ties: "<=" for "<"
lower_or_equal_count(all_prices, cur) ==
    Cardinality({i \in DOMAIN all_prices : all_prices[i] <= cur})

\* sum(1 for p in all_prices if p < current_price)
lower_count(all_prices, cur) ==
    Cardinality({i \in DOMAIN all_prices : all_prices[i] < cur})

\* percentile_rank over the history alone: the current price left out of the
\* denominator
percentile_rank_of_history(all_prices, cur) ==
    (lower_count(all_prices, cur) * 100 * Unit) \div (Len(all_prices) - 1)

\* percentile = (lower_count / len(all_prices)) * 100
percentile_rank(all_prices, cur) ==
    (lower_count(all_prices, cur) * 100 * Unit) \div Len(all_prices)

calculate_price_analysis(cur, hist) ==
    IF hist = <<>>
    THEN [avg |-> [n |-> cur, d |-> 1], min |-> cur, max |-> cur,
          from_min_points |-> 0, from_min_percent |-> [n |-> 0, d |-> 1],
          from_max_points |-> 0, from_max_percent |-> [n |-> 0, d |-> 1],
          percentile |-> 50 * Unit, sample_size |-> 0]
    ELSE
    LET all_prices == hist \o <<cur>>
        min_price == SeqMin(all_prices)
        max_price == SeqMax(all_prices)
        from_min_points == cur - min_price
        from_max_points == cur - max_price
        price_range == max_price - min_price
    IN  [avg |-> [n |-> SeqSum(all_prices), d |-> Len(all_prices)],
         min |-> min_price, max |-> max_price,
         from_min_points |-> from_min_points,
         from_min_percent |->
             IF price_range > 0
             THEN [n |-> from_min_points * 100, d |-> price_range]
             ELSE [n |-> 0, d |-> 1],
         from_max_points |-> from_max_points,
         from_max_percent |->
             IF price_range > 0
             THEN [n |-> from_max_points * 100, d |-> price_range]
             ELSE [n |-> 0, d |-> 1],
         percentile |-> percentile_rank(all_prices, cur),
         sample_size |-> Len(hist)]

-----------------------------------------------------------------------------
(* calculate_investment_advice *)

\* x tenths, in units of 1/Unit
Tenths(x) == x * (Unit \div 10)

position_level_of(pct) ==
    IF pct <= 15 * Unit THEN "extreme_low"
    ELSE IF pct <= 35 * Unit THEN "low"
    ELSE IF pct <= 65 * Unit THEN "mid"
    ELSE IF pct <= 85 * Unit THEN "high"
    ELSE "extreme_high"

\* the direction code read off mid_trend by substring tests
direction_of(mid_trend) ==
    IF In(STRONG_UP, mid_trend) THEN 2
    ELSE IF In(MILD_UP, mid_trend) THEN 1
    ELSE IF In(FLAT, mid_trend) THEN 0
    ELSE IF In(MILD_DOWN, mid_trend) THEN -1
    ELSE -2

\* is_reversing_up that misses a mild decline: "direction < -1"
is_reversing_up_strong_only(desc, short_trend, direction) ==
    In(REVERSAL, desc) /\ In(UP, short_trend) /\ direction < -1

is_reversing_up(desc, short_trend, direction) ==
    In(REVERSAL, desc) /\ In(UP, short_trend) /\ direction < 0

is_reversing_down(desc, short_trend, direction) ==
    In(REVERSAL, desc) /\ In(DOWN, short_trend) /\ direction > 0

\* the tier x direction table: trend_adj and reason before any reversal override
trend_adj_base(pct, direction, desc) ==
    IF pct <= 15 * Unit THEN
        IF direction <= -1
        THEN [adj |-> Tenths(50 + Abs(direction) * 20),
              reason |-> "deep drop at extreme low, strong buy"]
        ELSE IF direction >= 1
        THEN [adj |-> Tenths(45 + direction * 15),
              reason |-> "rebound at extreme low, strong buy"]
        ELSE [adj |-> Tenths(40),
              reason |-> "consolidation at extreme low, strong buy"]
    ELSE IF pct <= 35 * Unit THEN
        IF direction <= -1
        THEN [adj |-> Tenths(40 + Abs(direction) * 15),
              reason |-> "deep drop at low, bottom-fishing"]
        ELSE IF direction >= 1
        THEN [adj |-> Tenths(35 + direction * 12),
              reason |-> "rebound at low, improving trend"]
        ELSE [adj |-> Tenths(30),
              reason |-> "consolidation at low, build position gradually"]
    ELSE IF 65 * Unit < pct /\ pct < 85 * Unit THEN
        IF direction >= 1
        THEN [adj |-> IF direction = 2 THEN Tenths(25) ELSE Tenths(28),
              reason |-> "rise at high, hold cautiously"]
        ELSE IF direction <= -1
        THEN IF In(REVERSAL, desc)
             THEN [adj |-> Tenths(15),
                   reason |-> "pullback at high with reversal signal, watch"]
             ELSE [adj |-> Tenths(-10 - Abs(direction) * 5),
                   reason |-> "pullback at high, reduce position"]
        ELSE [adj |-> Tenths(18),
              reason |-> "consolidation at high, watch risk"]
    ELSE IF pct >= 85 * Unit THEN
        IF direction >= 1
        THEN [adj |-> Tenths(-40 - direction * 10),
              reason |-> "chasing rise at extreme high, high risk"]
        ELSE IF direction <= -1
        THEN [adj |-> Tenths(-20 - Abs(direction) * 8),
              reason |-> "pullback at extreme high, take profit"]
        ELSE [adj |-> Tenths(-20),
              reason |-> "consolidation at extreme high, beware correction"]
    ELSE [adj |-> direction * Unit,
          reason |-> IF direction >= 1 THEN "mid-tier rise, participate lightly"
                     ELSE IF direction <= -1 THEN "mid-tier decline, wait"
                     ELSE "mid-tier consolidation, await direction"]

\* the reversal overrides applied to the table's row
reversal_override(row, pct, reversing_up, reversing_down) ==
    IF reversing_up
    THEN [adj |-> row.adj + (IF pct <= 35 * Unit THEN Tenths(20)
                             ELSE IF pct <= 65 * Unit THEN Tenths(15)
                             ELSE Tenths(10)),
          reason |-> IF pct <= 35 * Unit
                     THEN "rebound after decline at low, strong buy"
                     ELSE IF pct <= 65 * Unit
                     THEN "rebound after decline at mid, buy lightly"
                     ELSE "rebound after decline at high, hold cautiously, may add"]
    ELSE IF reversing_down
    THEN [adj |-> row.adj - (IF pct >= 85 * Unit THEN Tenths(20)
                             ELSE IF pct >= 65 * Unit THEN Tenths(15)
                             ELSE Tenths(5)),
          reason |-> IF pct >= 85 * Unit
                     THEN "fall after spike at extreme high, strong sell"
                     ELSE IF pct >= 65 * Unit
                     THEN "fall after spike at high, reduce position"
                     ELSE "fall after spike at mid or low, wait"]
    ELSE row

\* final_score_internal without its floor of 0
final_score_internal_unfloored(position_score, trend_adj) ==
    Min2(15 * Unit, position_score + trend_adj)

\* final_score_internal = max(0, min(15, position_score + trend_adj))
final_score_internal(position_score, trend_adj) ==
    Max2(0, Min2(15 * Unit, position_score + trend_adj))

\* score_display = min(10, final_score_internal * 10 / 15)
score_display(final) == Min2(10 * Unit, (final * 10) \div 15)

advice_bucket(score) ==
    IF score >= Tenths(85) THEN [advice |-> "strong_buy", action |-> "buy all in"]
    ELSE IF score >= Tenths(70) THEN [advice |-> "buy", action |-> "buy heavily"]
    ELSE IF score >= Tenths(55) THEN [advice |-> "mild_buy", action |-> "buy lightly"]
    ELSE IF score >= Tenths(45) THEN [advice |-> "watch", action |-> "wait"]
    ELSE IF score >= Tenths(30)
    THEN [advice |-> "caution_hold", action |-> "hold cautiously, may add"]
    ELSE IF score >= Tenths(20) THEN [advice |-> "mild_sell", action |-> "reduce"]
    ELSE IF score >= Tenths(10) THEN [advice |-> "sell", action |-> "reduce heavily"]
    ELSE [advice |-> "strong_sell", action |-> "sell all"]

\* stars_of without its clamp to [1,5]
stars_unclamped(score) == Round(score, 2 * Unit)

\* the number of stars: max(1, min(5, round(score_display / 2)))
stars_of(score) == Max2(1, Min2(5, Round(score, 2 * Unit)))

\* confidence from len(trend_analysis['prices'])
confidence_of(prices) ==
    IF Len(prices) < 5 THEN "low"
    ELSE IF Len(prices) < 15 THEN "medium"
    ELSE "high"

calculate_investment_advice(pct, trend) ==
    LET position_score == 10 * Unit - pct \div 10
        mid_trend == trend.mid_trend
        short_trend == trend.short_trend
        desc == trend.trend_description
        direction == direction_of(mid_trend)
        row == reversal_override(
                   trend_adj_base(pct, direction, desc), pct,
                   is_reversing_up(desc, short_trend, direction),
                   is_reversing_down(desc, short_trend, direction))
        display == score_display(final_score_internal(position_score, row.adj))
        bucket == advice_bucket(display)
    IN  [advice |-> bucket.advice, priority_score |-> display,
         stars |-> stars_of(display),
         position_level |-> position_level_of(pct),
         position_score |-> position_score,
         trend_adjustment |-> row.adj, trend_direction |-> direction,
         reason |-> row.reason, action_desc |-> bucket.action,
         confidence |-> confidence_of(trend.prices)]

-----------------------------------------------------------------------------
(* Inputs of the analysis specifications *)

Prices == (1..MaxPrice) \cup {FarPrice}

PriceSeqs == SeqsUpTo(Prices, MaxLen)

\* percentiles 0, 1/PctSteps, 2/PctSteps, ..., 100
PctGrid == {(k * Unit) \div PctSteps : k \in 0..(100 * PctSteps)}

Trends == {STRONG_UP, MILD_UP, FLAT, MILD_DOWN, STRONG_DOWN, NODATA}

Zero == [n |-> 0, d |-> 1]

\* every description calculate_trend_analysis can build from a pair of labels
Descriptions(mid, short) ==
    {mid \o <<",", "trend", "stable">>,
     mid \o <<",", "short", "accelerating">>,
     mid \o <<",", "short", "decelerating">>,
     mid \o <<",", "short", "reversal">>,
     <<"mid">> \o mid \o <<",", "short">> \o short,
     NODATA}

\* TrendResults of any shape, consistent or not
AnyTrends ==
    {[short_trend |-> s, mid_trend |-> m, trend_strength |-> Zero,
      trend_description |-> d, short_slope |-> Zero, mid_slope |-> Zero,
      prices |-> <<>>] :
        s \in Trends, m \in Trends, d \in UNION {Descriptions(x, y) : x \in Trends, y \in Trends}}

\* TrendResults that calculate_trend_analysis returns
ProducedTrends == {calculate_trend_analysis(p) : p \in PriceSeqs}

None == [none |-> TRUE]

NoFile == [exists |-> FALSE, lines |-> <<>>]

NoSite == [exists |-> FALSE, history |-> <<>>]

\* the run state while only the analysis is exercised
RunIdle ==
    /\ clock = [day |-> 1, hour |-> 0]
    /\ data_file = NoFile
    /\ site = NoSite
    /\ commerce_data = <<>>

-----------------------------------------------------------------------------
(* The per-entity pipeline, run() lines 423-429 *)

InitAnalysis ==
    /\ pc = "start"
    /\ historical_prices \in PriceSeqs
    /\ current_price \in Prices
    /\ analysis = None
    /\ percentile = 0
    /\ trend_analysis = None
    /\ investment_advice = None
    /\ RunIdle

\* pa = calculate_price_analysis(cur, hist)
PriceAnalysis ==
    /\ pc = "start"
    /\ analysis' = calculate_price_analysis(current_price, historical_prices)
    /\ percentile' = analysis'.percentile
    /\ pc' = "priced"
    /\ UNCHANGED <<historical_prices, current_price, trend_analysis,
                   investment_advice, runVars>>

\* trend = calculate_trend_analysis(hist + [cur])
TrendAnalysis ==
    /\ pc = "priced"
    /\ trend_analysis' =
           calculate_trend_analysis(historical_prices \o <<current_price>>)
    /\ pc' = "trended"
    /\ UNCHANGED <<historical_prices, current_price, analysis, percentile,
                   investment_advice, runVars>>

\* adv = calculate_investment_advice(pa['percentile'], trend)
Advice ==
    /\ pc = "trended"
    /\ investment_advice' = calculate_investment_advice(percentile, trend_analysis)
    /\ pc' = "advised"
    /\ UNCHANGED <<historical_prices, current_price, analysis, percentile,
                   trend_analysis, runVars>>

NextAnalysis == PriceAnalysis \/ TrendAnalysis \/ Advice

SpecAnalysis == InitAnalysis /\ [][NextAnalysis]_vars

-----------------------------------------------------------------------------
(* calculate_investment_advice on free inputs *)

InitAdvice ==
    /\ pc = "trended"
    /\ historical_prices = <<>>
    /\ current_price = 0
    /\ analysis = None
    /\ percentile \in PctGrid
    /\ trend_analysis \in AnyTrends \cup ProducedTrends
    /\ investment_advice = None
    /\ RunIdle

NextAdvice == Advice

SpecAdvice == InitAdvice /\ [][NextAdvice]_vars

-----------------------------------------------------------------------------
(* Time slots *)

\* the hours at which runs are tried: both sides of every slot boundary
Hours == {0, 9, 10, 13, 14, 17, 18, 21, 22, 23}

Times == [day : 1..MaxDay, hour : Hours]

SLOTS ==
    <<[start_h |-> 10, end_h |-> 14, label |-> <<"10:00">>],
      [start_h |-> 14, end_h |-> 18, label |-> <<"14:00">>],
      [start_h |-> 18, end_h |-> 22, label |-> <<"18:00">>],
      [start_h |-> 22, end_h |-> 24, label |-> <<"22:00">>]>>

DigitChars == <<"0", "1", "2", "3", "4", "5", "6", "7", "8", "9">>

\* Python str(n) of an integer n >= 0: its decimal digits
RECURSIVE str(_)
str(n) ==
    IF n < 10 THEN <<DigitChars[n + 1]>>
    ELSE str(n \div 10) \o <<DigitChars[(n % 10) + 1]>>

IsDigit(c) == \E d \in 0..9 : DigitChars[d + 1] = c

DigitValue(c) == CHOOSE d \in 0..9 : DigitChars[d + 1] = c

RECURSIVE DigitsValue(_)
DigitsValue(s) ==
    IF s = <<>> THEN 0
    ELSE 10 * DigitsValue(SubSeq(s, 1, Len(s) - 1)) + DigitValue(s[Len(s)])

\* Python float(s) on a field: the number written, or an exception
float(s) ==
    IF s # <<>> /\ \A i \in DOMAIN s : IsDigit(s[i])
    THEN [ok |-> TRUE, value |-> DigitsValue(s)]
    ELSE [ok |-> FALSE, value |-> 0]

\* date.strftime("%Y/%m/%d"): dates are day numbers, written in decimal
strftime(day) == <<"Y/m/">> \o str(day)

get_slot(now) ==
    LET h == now.hour
        hit == {i \in DOMAIN SLOTS : SLOTS[i].start_h <= h /\ h < SLOTS[i].end_h}
    IN  IF h < 10
        THEN [date |-> strftime(now.day - 1), label |-> <<"22:00">>]
        ELSE IF hit # {}
        THEN [date |-> strftime(now.day),
              label |-> SLOTS[CHOOSE i \in hit : \A j \in hit : i <= j].label]
        ELSE [date |-> strftime(now.day), label |-> <<"22:00">>]

-----------------------------------------------------------------------------
(* The history file.  A line is the sequence of its whitespace-separated   *)
(* fields (what line.split() returns, and what " ".join writes); a field is *)
(* a string, a sequence of characters or words without whitespace.         *)

COMMERCE_MAP ==
    [cid \in 1..5 |->
        CASE cid = 1 -> <<"goblin_vault">>
          [] cid = 2 -> <<"slime_society">>
          [] cid = 3 -> <<"legend_armory">>
          [] cid = 4 -> <<"diamond_merchant">>
          [] cid = 5 -> <<"dragon_church">>]

\* sorted(COMMERCE_MAP.keys())
SortedCids == <<1, 2, 3, 4, 5>>

\* ["date", "time"] + [COMMERCE_MAP[cid] for cid in sorted(COMMERCE_MAP.keys())]
expected_header ==
    <<<<"date">>, <<"time">>>> \o [i \in DOMAIN SortedCids |-> COMMERCE_MAP[SortedCids[i]]]

\* one data line of load_historical_data: a short line is skipped, a field that
\* float() rejects is passed over
LoadLine(hist, parts) ==
    IF Len(parts) < 2 + Len(SortedCids) THEN hist
    ELSE [cid \in DOMAIN hist |->
             LET idx == 2 + (CHOOSE i \in DOMAIN SortedCids : SortedCids[i] = cid)
                 price == float(parts[idx])
             IN  IF price.ok THEN Append(hist[cid], price.value) ELSE hist[cid]]

RECURSIVE LoadLines(_, _)
LoadLines(hist, lines) ==
    IF lines = <<>> THEN hist
    ELSE LoadLines(LoadLine(hist, lines[1]), Tail(lines))

NonBlank(line) == line # <<>>

load_historical_data(file) ==
    LET hist == [cid \in DOMAIN COMMERCE_MAP |-> <<>>]
        lines == SelectSeq(file.lines, NonBlank)
    IN  IF ~file.exists THEN hist
        ELSE IF lines = <<>> THEN hist
        ELSE IF lines[1] # expected_header THEN hist
        ELSE LoadLines(hist, Tail(lines))

\* commerce_data.get(cid, 0)
Get(data, cid, default) == IF cid \in DOMAIN data THEN data[cid] ELSE default

\* the row save_data_row writes
data_row(current_date, time_slot, data) ==
    <<current_date, time_slot>>
        \o [i \in DOMAIN SortedCids |-> str(Get(data, SortedCids[i], 0))]

\* save_data_row comparing the slot label alone, not the date
save_data_row_label_only(file, current_date, time_slot, data) ==
    LET created == IF file.exists THEN file
                   ELSE [exists |-> TRUE, lines |-> <<expected_header>>]
        lines == created.lines
        last_line == IF Len(lines) > 1 THEN lines[Len(lines)] ELSE <<>>
    IN  IF /\ last_line # <<>>
           /\ Len(last_line) >= 2
           /\ last_line[2] = time_slot
        THEN created
        ELSE [created EXCEPT !.lines = Append(lines, data_row(current_date, time_slot, data))]

save_data_row(file, current_date, time_slot, data) ==
    LET created == IF file.exists THEN file
                   ELSE [exists |-> TRUE, lines |-> <<expected_header>>]
        lines == created.lines
        last_line == IF Len(lines) > 1 THEN lines[Len(lines)] ELSE <<>>
    IN  IF /\ last_line # <<>>
           /\ Len(last_line) >= 2
           /\ last_line[1] = current_date
           /\ last_line[2] = time_slot
        THEN created
        ELSE [created EXCEPT !.lines = Append(lines, data_row(current_date, time_slot, data))]

\* HISTORY_URL is the price_history.txt of the published site: a 200 with
\* non-blank text overwrites the file, anything else leaves it
try_fetch_history_from_pages(file, published, fetched) ==
    IF fetched /\ published.exists /\ SelectSeq(published.history, NonBlank) # <<>>
    THEN [exists |-> TRUE, lines |-> published.history]
    ELSE file

-----------------------------------------------------------------------------
(* run() *)

\* the commerceIds of the items of a fetch: all five entities; entity 1 missing
\* and an untracked id 9 present; only an untracked id; no item
FetchIds == {<<1, 2, 3, 4, 5>>, <<2, 3, 4, 5, 9>>, <<9>>, <<>>}

\* payload["data"]: the item of entity c is priced 10 + c, so every column of
\* the file holds a two-digit number of its own
Payloads ==
    {[i \in DOMAIN ids |-> [commerceId |-> ids[i], price |-> 10 + ids[i]]] :
        ids \in FetchIds}

\* the loop of lines 401-407: the tracked entities' prices, a later item winning
tracked_prices(payload) ==
    LET tracked == {i \in DOMAIN payload : payload[i].commerceId \in DOMAIN COMMERCE_MAP}
    IN  [cid \in {payload[i].commerceId : i \in tracked} |->
            payload[CHOOSE i \in tracked :
                       /\ payload[i].commerceId = cid
                       /\ \A j \in tracked :
                              payload[j].commerceId = cid => j <= i].price]

DataRows(file) == IF file.exists /\ file.lines # <<>> THEN Tail(file.lines) ELSE <<>>

Later(now) ==
    \/ now.day > clock.day
    \/ now.day = clock.day /\ now.hour >= clock.hour

InitRun ==
    /\ pc = "idle"
    /\ historical_prices = <<>>
    /\ current_price = 0
    /\ analysis = None
    /\ percentile = 0
    /\ trend_analysis = None
    /\ investment_advice = None
    /\ RunIdle

\* line 381: no ARING_TOKEN
RunWithoutToken ==
    \E now \in Times :
        /\ Later(now)
        /\ clock' = now
        /\ pc' = "raised"
        /\ commerce_data' = <<>>
        /\ UNCHANGED <<data_file, site, historical_prices, current_price, analysis,
                       percentile, trend_analysis, investment_advice>>

\* lines 385-393: the price request fails or its body is malformed
RunRequestFails ==
    \E now \in Times, fetched \in BOOLEAN :
        /\ Later(now)
        /\ clock' = now
        /\ data_file' = try_fetch_history_from_pages(data_file, site, fetched)
        /\ pc' = "raised"
        /\ commerce_data' = <<>>
        /\ UNCHANGED <<site, historical_prices, current_price, analysis,
                       percentile, trend_analysis, investment_advice>>

\* lines 385-410: the payload holds no tracked entity
RunWithoutData ==
    \E now \in Times, fetched \in BOOLEAN, payload \in Payloads :
        /\ Later(now)
        /\ tracked_prices(payload) = <<>>
        /\ clock' = now
        /\ data_file' = try_fetch_history_from_pages(data_file, site, fetched)
        /\ pc' = "raised"
        /\ commerce_data' = <<>>
        /\ UNCHANGED <<site, historical_prices, current_price, analysis,
                       percentile, trend_analysis, investment_advice>>

\* lines 385-453: the whole run.  The report and the chart payload it writes
\* to the site are functions of the file and the fetch that no later run
\* reads; SpecAnalysis models their per-entity analysis.
RunCompletes ==
    \E now \in Times, fetched \in BOOLEAN, payload \in Payloads :
        LET data == tracked_prices(payload)
            slot == get_slot(now)
            pulled == try_fetch_history_from_pages(data_file, site, fetched)
            saved == save_data_row(pulled, slot.date, slot.label, data)
        IN  /\ Later(now)
            /\ data # <<>>
            /\ Len(DataRows(saved)) <= MaxRows
            /\ clock' = now
            /\ commerce_data' = data
            /\ data_file' = saved
            /\ site' = [exists |-> TRUE, history |-> saved.lines]
            /\ pc' = "done"
            /\ UNCHANGED <<historical_prices, current_price, analysis,
                           percentile, trend_analysis, investment_advice>>

NextRun == RunWithoutToken \/ RunRequestFails \/ RunWithoutData \/ RunCompletes

SpecRun == InitRun /\ [][NextRun]_vars

-----------------------------------------------------------------------------
(* Claims about calculate_investment_advice, checked under SpecAdvice *)

Unclamped == investment_advice.position_score + investment_advice.trend_adjustment

\* C1: for every percentile in [0,100] and every TrendResult, reversal flags
\* included, the returned priority_score is at least 0 and at most 10.
C1_PriorityScoreInRange ==
    pc = "advised" =>
        /\ investment_advice.priority_score >= 0
        /\ investment_advice.priority_score <= 10 * Unit

\* an advice whose unclamped sum is negative, under a reversing-down override
C1_Witness ==
    /\ pc = "advised"
    /\ is_reversing_down(trend_analysis.trend_description,
                         trend_analysis.short_trend,
                         investment_advice.trend_direction)
    /\ Unclamped < 0
    /\ investment_advice.priority_score = 0

\* the decision table of the specification, by tier
SpecTable(tier, d, reversal) ==
    CASE tier = "extreme_low" ->
           IF d <= -1 THEN [adj |-> Tenths(50 + 20 * Abs(d)),
                            reason |-> "deep drop at extreme low, strong buy"]
           ELSE IF d >= 1 THEN [adj |-> Tenths(45 + 15 * d),
                                reason |-> "rebound at extreme low, strong buy"]
           ELSE [adj |-> Tenths(40),
                 reason |-> "consolidation at extreme low, strong buy"]
      [] tier = "low" ->
           IF d <= -1 THEN [adj |-> Tenths(40 + 15 * Abs(d)),
                            reason |-> "deep drop at low, bottom-fishing"]
           ELSE IF d >= 1 THEN [adj |-> Tenths(35 + 12 * d),
                                reason |-> "rebound at low, improving trend"]
           ELSE [adj |-> Tenths(30),
                 reason |-> "consolidation at low, build position gradually"]
      [] tier = "mid" ->
           IF d <= -1 THEN [adj |-> Tenths(10 * d), reason |-> "mid-tier decline, wait"]
           ELSE IF d >= 1 THEN [adj |-> Tenths(10 * d),
                                reason |-> "mid-tier rise, participate lightly"]
           ELSE [adj |-> 0, reason |-> "mid-tier consolidation, await direction"]
      [] tier = "high" ->
           IF d <= -1
           THEN IF reversal
                THEN [adj |-> Tenths(15),
                      reason |-> "pullback at high with reversal signal, watch"]
                ELSE [adj |-> Tenths(-10 - 5 * Abs(d)),
                      reason |-> "pullback at high, reduce position"]
           ELSE IF d >= 1 THEN [adj |-> IF d = 2 THEN Tenths(25) ELSE Tenths(28),
                                reason |-> "rise at high, hold cautiously"]
           ELSE [adj |-> Tenths(18), reason |-> "consolidation at high, watch risk"]
      [] tier = "extreme_high" ->
           IF d <= -1 THEN [adj |-> Tenths(-20 - 8 * Abs(d)),
                            reason |-> "pullback at extreme high, take profit"]
           ELSE IF d >= 1 THEN [adj |-> Tenths(-40 - 10 * d),
                                reason |-> "chasing rise at extreme high, high risk"]
           ELSE [adj |-> Tenths(-20),
                 reason |-> "consolidation at extreme high, beware correction"]

\* C3: for every percentile in [0,100], the boundaries 15, 35, 65 and 85
\* included, and every direction code, the adjustment and reason chosen before
\* any reversal override are those of the decision-table row of the tier
\* reported as position_level.
C3_RowOfReportedTier ==
    pc = "advised" =>
        trend_adj_base(percentile, investment_advice.trend_direction,
                       trend_analysis.trend_description)
          = SpecTable(investment_advice.position_level,
                      investment_advice.trend_direction,
                      In(REVERSAL, trend_analysis.trend_description))

\* every (priority_score, stars) pair the advice returns on the inputs
ScoreStars ==
    UNION {{LET a == calculate_investment_advice(p, t)
            IN  [score |-> a.priority_score, stars |-> a.stars] :
               t \in AnyTrends \cup ProducedTrends} : p \in PctGrid}

\* the highest priority_score among the results with fewer than k stars
\* (-1 when there is none)
TopScoreBelowStars ==
    [k \in 1..5 |->
        LET scores == {r.score : r \in {x \in ScoreStars : x.stars < k}} \cup {-1}
        IN  CHOOSE m \in scores : \A y \in scores : m >= y]

\* C6: the number of stars is an integer between 1 and 5, and of any two
\* results the one with the larger or equal priority_score never has fewer
\* stars: every result with fewer stars than this one has a strictly lower
\* priority_score.
C6_StarsInRangeAndMonotone ==
    pc = "advised" =>
        /\ investment_advice.stars \in 1..5
        /\ TopScoreBelowStars[investment_advice.stars]
               < investment_advice.priority_score

\* an advice of 5 stars and one of 1 star at a score below 1, where the clamp acts
C6_Witness ==
    /\ pc = "advised"
    /\ investment_advice.stars = 1
    /\ Round(investment_advice.priority_score, 2 * Unit) = 0
    /\ \E r \in ScoreStars : r.stars = 5

Produced == trend_analysis = calculate_trend_analysis(trend_analysis.prices)

HighBranchWithReversal ==
    /\ 65 * Unit < percentile /\ percentile < 85 * Unit
    /\ investment_advice.trend_direction <= -1
    /\ In(REVERSAL, trend_analysis.trend_description)

\* C9: for every TrendResult produced by calculate_trend_analysis and every
\* percentile with 65 < percentile < 85, whenever the high-tier branch for
\* direction <= -1 with a reversal description is taken, the reversing-up
\* override fires too: the returned adjustment is 2.5, the reason is the
\* high-tier reversing-up reason, and the reason "pullback at high with
\* reversal signal, watch" is never returned.
C9_HighReversalAlwaysOverridden ==
    (pc = "advised" /\ Produced) =>
        /\ HighBranchWithReversal =>
               /\ investment_advice.trend_adjustment = Tenths(25)
               /\ investment_advice.reason
                      = "rebound after decline at high, hold cautiously, may add"
        /\ investment_advice.reason
               # "pullback at high with reversal signal, watch"

\* the branch taken on a produced TrendResult whose mid-term decline is mild
C9_Witness ==
    /\ pc = "advised"
    /\ Produced
    /\ HighBranchWithReversal
    /\ trend_analysis.mid_trend = MILD_DOWN
    /\ investment_advice.trend_adjustment = Tenths(25)

-----------------------------------------------------------------------------
(* Claims about the pipeline, checked under SpecAnalysis *)

\* C2: when mid_trend is the insufficient-data sentinel that
\* calculate_trend_analysis returns for fewer than 3 prices, the advice has
\* trend_direction 0.
C2_InsufficientDataIsDirectionZero ==
    (pc = "advised" /\ trend_analysis.mid_trend = NODATA) =>
        investment_advice.trend_direction = 0

NewMaximum ==
    /\ historical_prices # <<>>
    /\ \A i \in DOMAIN historical_prices : historical_prices[i] < current_price

\* C4, as claimed: a current price strictly above every price of a non-empty
\* history has percentile 100.
C4_NewMaximumIs100 ==
    (pc # "start" /\ NewMaximum) => analysis.percentile = 100 * Unit

\* C4, amended: a current price strictly above every price of a non-empty
\* history of n prices has percentile 100 * n / (n + 1).
C4_NewMaximumIsNOverNPlus1 ==
    (pc # "start" /\ NewMaximum) =>
        analysis.percentile * (Len(historical_prices) + 1)
            = 100 * Unit * Len(historical_prices)

C4_Witness ==
    /\ pc # "start"
    /\ NewMaximum
    /\ Len(historical_prices) = 3
    /\ analysis.percentile = 75 * Unit

\* the confidence the claim derives from the history length n
ConfidenceOfHistory(n) ==
    IF n < 5 THEN "low" ELSE IF n < 15 THEN "medium" ELSE "high"

\* C5: the confidence of an entity's advice is determined by the length n of
\* its historical series, the current price not counted: low when n < 5,
\* medium when 5 <= n < 15, high when n >= 15.
C5_ConfidenceFromHistoryLength ==
    pc = "advised" =>
        investment_advice.confidence = ConfidenceOfHistory(Len(historical_prices))

AllEqualCurrent ==
    /\ historical_prices # <<>>
    /\ \A i \in DOMAIN historical_prices : historical_prices[i] = current_price

\* C8, as claimed: when every price of a non-empty history equals the current
\* price, the pipeline reports position_level mid.
C8_AllEqualIsMid ==
    (pc = "advised" /\ AllEqualCurrent) => investment_advice.position_level = "mid"

\* C8, amended: when every price of a non-empty history equals the current
\* price, the percentile is 0 and the pipeline reports position_level
\* extreme_low.
C8_AllEqualIsExtremeLow ==
    (pc = "advised" /\ AllEqualCurrent) =>
        /\ analysis.percentile = 0
        /\ investment_advice.position_level = "extreme_low"

C8_Witness ==
    /\ pc = "advised"
    /\ AllEqualCurrent
    /\ Len(historical_prices) = MaxLen
    /\ investment_advice.position_level = "extreme_low"

-----------------------------------------------------------------------------
(* Claims about run() and the history file, checked under SpecRun *)

LabelOf(row) == <<row[1], row[2]>>

SlotLabel(now) == <<get_slot(now).date, get_slot(now).label>>

OneRowPerLabel(rows) ==
    \A i, j \in DOMAIN rows : LabelOf(rows[i]) = LabelOf(rows[j]) => i = j

InLastRowsSlot(rows, now) ==
    rows # <<>> /\ LabelOf(rows[Len(rows)]) = SlotLabel(now)

\* one run: the rows before and after it
C7_Run ==
    LET rows == DataRows(data_file)
        after == DataRows(data_file')
    IN  /\ OneRowPerLabel(after)
        /\ (pc' = "done" /\ InLastRowsSlot(rows, clock')) => after = rows
        /\ (pc' = "done" /\ ~InLastRowsSlot(rows, clock')) =>
               /\ Len(after) = Len(rows) + 1
               /\ SubSeq(after, 1, Len(rows)) = rows
               /\ LabelOf(after[Len(after)]) = SlotLabel(clock')
        /\ pc' = "raised" => after = rows
        /\ clock'.hour < 10 =>
               SlotLabel(clock') = <<strftime(clock'.day - 1), <<"22:00">>>>

\* C7: after any sequence of runs at non-decreasing clock times against the
\* same history file, the file holds at most one data row per (date, slot)
\* label, 00:00-09:59 belonging to the previous day's 22:00 slot: a run in the
\* slot of the last row appends nothing, a run in a new slot that reaches
\* save_data_row appends exactly one row, and a run that raises before it
\* appends nothing.
C7_OneRowPerSlot == [][C7_Run]_vars

\* a run between 00:00 and 09:59 whose fetch differs from the last row, written
\* the day before at 22:00, and which appended nothing
C7_Witness ==
    /\ pc = "done"
    /\ Len(DataRows(data_file)) = 2
    /\ clock.hour < 10
    /\ InLastRowsSlot(DataRows(data_file), clock)
    /\ DataRows(data_file)[2]
           # data_row(get_slot(clock).date, get_slot(clock).label, commerce_data)

\* one run: an entity's series before and after it
C10_Run ==
    \A cid \in DOMAIN COMMERCE_MAP :
        LET series == load_historical_data(data_file)[cid]
            after == load_historical_data(data_file')[cid]
        IN  IF pc' = "done" /\ cid \in DOMAIN commerce_data'
            THEN after = series \/ after = Append(series, commerce_data'[cid])
            ELSE after = series

\* C10: every price of an entity's series returned by load_historical_data is
\* a price the fetch reported for that entity in an earlier run: a run adds to
\* the series at most the price its fetch reported for the entity, and a run
\* whose fetch omits the entity adds nothing to its series.
C10_OnlyReportedPrices == [][C10_Run]_vars

=============================================================================
